---- MODULE Spec2Model ----
(***************************************************************************)
(* Model of stellar-smart-mcp: the per-user store (src/src/store-do.ts),   *)
(* session initialisation and the tool handlers of MyMCP                   *)
(* (src/unnamed/part_000).                                                 *)
(*                                                                         *)
(* A TypeScript string whose characters matter (a login, a contract name,  *)
(* a function name, a tool id) is a sequence of one-character strings.     *)
(* Ledger addresses and signing secrets are atoms: only their validity     *)
(* matters.                                                                *)
(***************************************************************************)
EXTENDS Integers, Sequences, FiniteSets, TLC

VARIABLES
    tables,      \* whether the two tables exist (createTables ran, no dropTables since)
    contracts,   \* table contracts(login, name, address), rows in rowid order
    addresses,   \* table addresses(login PRIMARY KEY, address, sk), rowid order
    storeCall,   \* the latest direct call on the store object and how it ended
    session,     \* per login: the MyMCP agent of that user's session
    inv,         \* per login: the tool invocation in flight in that session
    pending,     \* per login: store calls sent through the stub and not awaited
    passkeyWallet, \* passkey-kit's module-level wallet: contractId of wallet.wallet
    ledger,      \* number of transactions the relay has put on the ledger
    toolCall     \* the latest management-tool call and how its handler ended

storeVars == <<tables, contracts, addresses, storeCall>>
appVars == <<session, inv, pending, passkeyWallet, ledger, toolCall>>
vars == <<tables, contracts, addresses, storeCall, session, inv, pending, passkeyWallet, ledger, toolCall>>

(***************************************************************************)
(* Bounds of the model.                                                    *)
(***************************************************************************)
MaxRows == 2          \* calls are made while a table holds at most this many rows

(***************************************************************************)
(* Strings.                                                                *)
(***************************************************************************)
Digits == {"0", "1", "2", "3", "4", "5", "6", "7", "8", "9"}

Letters ==
    {"a", "b", "c", "d", "e", "f", "g", "h", "i", "j", "k", "l", "m",
     "n", "o", "p", "q", "r", "s", "t", "u", "v", "w", "x", "y", "z",
     "A", "B", "C", "D", "E", "F", "G", "H", "I", "J", "K", "L", "M",
     "N", "O", "P", "Q", "R", "S", "T", "U", "V", "W", "X", "Y", "Z"}

RECURSIVE StripLeadingZeros(_)
StripLeadingZeros(s) ==
    IF Len(s) > 1 /\ Head(s) = "0" THEN StripLeadingZeros(Tail(s)) ELSE s

\* A well-formed integer literal, over the characters the model draws
\* strings from (letters, digits, punctuation; no sign, blank or exponent).
IsIntegerLiteral(s) == Len(s) > 0 /\ \A i \in 1..Len(s) : s[i] \in Digits

(***************************************************************************)
(* SQLite column affinity.  createTables declares every column STRING,     *)
(* which SQLite gives NUMERIC affinity: a text value that is a well-formed *)
(* integer literal is stored (and compared) as that INTEGER, any other     *)
(* text is stored as TEXT.  A stored value is [k, s]: its storage class    *)
(* and its characters (an INTEGER's canonical decimal digits).             *)
(***************************************************************************)
StringAffinity(s) ==
    IF IsIntegerLiteral(s)
    THEN [k |-> "integer", s |-> StripLeadingZeros(s)]
    ELSE [k |-> "text", s |-> s]

\* The value as the TypeScript caller holds it before it is bound.
Text(s) == [k |-> "text", s |-> s]

(***************************************************************************)
(* Ledger addresses: new Address(a).toString() throws on a malformed       *)
(* string and returns the same strkey for a well-formed one.  A strkey     *)
(* starts with the letter G or C, so the address and sk columns always     *)
(* hold TEXT.                                                              *)
(***************************************************************************)
ContractAddresses == {"CA", "CB", "CX", "CY"}
WalletAddresses == {"GA", "GB"}
Malformed == {"bad"}
IsAddress(a) == a \in ContractAddresses \cup WalletAddresses
Secrets == {"S1", "S2"}     \* what Keypair.random().secret() may return

(***************************************************************************)
(* The SQL statements of the store, on the tables' rows.                   *)
(***************************************************************************)
\* SELECT name, address FROM contracts WHERE login = ?1, mapped to pairs
RECURSIVE SelectContracts(_, _)
SelectContracts(rows, login) ==
    IF rows = <<>> THEN <<>>
    ELSE LET r == Head(rows)
             rest == SelectContracts(Tail(rows), login)
         IN IF r.login = StringAffinity(login)
            THEN <<[name |-> r.name, address |-> r.address]>> \o rest
            ELSE rest

\* INSERT OR IGNORE INTO contracts ... with UNIQUE (login, address)
InsertOrIgnoreContract(rows, login, name, address) ==
    IF \E i \in 1..Len(rows) :
          rows[i].login = StringAffinity(login) /\ rows[i].address = address
    THEN rows
    ELSE Append(rows, [login |-> StringAffinity(login),
                       name |-> StringAffinity(name),
                       address |-> address])

\* variant: DELETE FROM contracts WHERE login = ?1
DeleteContractsOfLogin(rows, login, address) ==
    SelectSeq(rows, LAMBDA r : r.login # StringAffinity(login))

\* DELETE FROM contracts WHERE login = ?1 AND address = ?2
DeleteContract(rows, login, address) ==
    SelectSeq(rows, LAMBDA r :
        ~(r.login = StringAffinity(login) /\ r.address = address))

\* variant: INSERT OR REPLACE
InsertOrReplaceAddress(rows, login, address, sk) ==
    Append(SelectSeq(rows, LAMBDA r : r.login # StringAffinity(login)),
           [login |-> StringAffinity(login), address |-> address, sk |-> sk])

\* INSERT OR IGNORE INTO addresses ... with login PRIMARY KEY
InsertOrIgnoreAddress(rows, login, address, sk) ==
    IF \E i \in 1..Len(rows) : rows[i].login = StringAffinity(login)
    THEN rows
    ELSE Append(rows, [login |-> StringAffinity(login),
                       address |-> address, sk |-> sk])

\* SELECT address, sk FROM addresses WHERE login = ?1
SelectAddress(rows, login) ==
    SelectSeq(rows, LAMBDA r : r.login = StringAffinity(login))

\* cursor.one(): the single row of the result; throws unless there is
\* exactly one row.
OneThrows(result) == Len(result) # 1

(***************************************************************************)
(* The public methods of StellarMCPStore.  Each is one synchronous call on *)
(* the single store object; storeCall records the call and its outcome     *)
(* (threw: the method raised; ret: what it returned).  A statement on a    *)
(* table that dropTables removed fails until the object is constructed     *)
(* again and createTables has run.                                         *)
(***************************************************************************)
StoreLogins == {<<"u">>, <<"7">>, <<"0", "7">>}
StoreNames == {<<"T">>, <<"0", "7">>}

NoCall == [op |-> "none", login |-> <<>>, name |-> <<>>, address |-> "",
           threw |-> FALSE, ret |-> <<>>]

Called(op, login, name, address, threw, ret) ==
    [op |-> op, login |-> login, name |-> name, address |-> address,
     threw |-> threw, ret |-> ret]

addContract(login, name, address) ==
    /\ Len(contracts) < MaxRows
    /\ IF ~IsAddress(address) \/ ~tables
       THEN /\ contracts' = contracts
            /\ storeCall' = Called("addContract", login, name, address, TRUE, <<>>)
       ELSE /\ contracts' = InsertOrIgnoreContract(contracts, login, name, address)
            /\ storeCall' = Called("addContract", login, name, address, FALSE, <<>>)
    /\ UNCHANGED <<tables, addresses>>
    /\ UNCHANGED appVars

removeContract(login, address) ==
    /\ IF ~IsAddress(address) \/ ~tables
       THEN /\ contracts' = contracts
            /\ storeCall' = Called("removeContract", login, <<>>, address, TRUE, <<>>)
       ELSE /\ contracts' = DeleteContract(contracts, login, address)
            /\ storeCall' = Called("removeContract", login, <<>>, address, FALSE, <<>>)
    /\ UNCHANGED <<tables, addresses>>
    /\ UNCHANGED appVars

getContracts(login) ==
    /\ storeCall' = Called("getContracts", login, <<>>, "", ~tables,
                           SelectContracts(contracts, login))
    /\ UNCHANGED <<tables, contracts, addresses>>
    /\ UNCHANGED appVars

setAddress(login, wallet, sk) ==
    /\ IF ~IsAddress(wallet) \/ ~tables
       THEN /\ addresses' = addresses
            /\ storeCall' = Called("setAddress", login, <<>>, wallet, TRUE, <<>>)
       ELSE /\ addresses' = InsertOrIgnoreAddress(addresses, login, wallet, sk)
            /\ storeCall' = Called("setAddress", login, <<>>, wallet, FALSE, <<>>)
    /\ UNCHANGED <<tables, contracts>>
    /\ UNCHANGED appVars

getAddress(login) ==
    /\ LET result == SelectAddress(addresses, login)
       IN storeCall' =
            IF ~tables \/ OneThrows(result)
            THEN Called("getAddress", login, <<>>, "", TRUE, <<>>)
            ELSE Called("getAddress", login, <<>>, "", FALSE,
                        <<result[1].address, result[1].sk>>)
    /\ UNCHANGED <<tables, contracts, addresses>>
    /\ UNCHANGED appVars

dropTables ==
    /\ tables
    /\ tables' = FALSE
    /\ contracts' = <<>>
    /\ addresses' = <<>>
    /\ storeCall' = Called("dropTables", <<>>, <<>>, "", FALSE, <<>>)
    /\ UNCHANGED appVars

\* the store object is constructed again: CREATE TABLE IF NOT EXISTS
createTables ==
    /\ ~tables
    /\ tables' = TRUE
    /\ UNCHANGED <<contracts, addresses, storeCall>>
    /\ UNCHANGED appVars

StoreInit ==
    /\ tables = TRUE
    /\ contracts = <<>>
    /\ addresses = <<>>
    /\ storeCall = NoCall

(***************************************************************************)
(* The ledger's contracts, as session initialisation meets them.           *)
(*   CA, CB  deployed, wasm carries an interface                           *)
(*   CX      no wasm to fetch: getContractWasmByContractId rejects         *)
(*   CY      wasm without a decodable interface: Client.fromWasm rejects   *)
(***************************************************************************)
GetWasmThrows(contractId) == contractId = "CX"
FromWasmThrows(contractId) == contractId = "CY"

\* contract.spec.funcs(): the names, in declaration order
SpecFuncs(contractId) ==
    IF contractId = "CA" THEN << <<"b">>, <<"_", "_", "c">> >>
    ELSE IF contractId = "CB" THEN << <<"b">>, <<"_", "x">> >>
    ELSE <<>>

\* func.inputs(): the declared parameters of a function, in declaration
\* order.  The interface section of a wasm is data its uploader wrote: a
\* parameter name is any string of up to 30 characters, so CB declares
\* names that a Rust source would not.
FuncInputs(contractId, func_name) ==
    IF contractId = "CA" /\ func_name = <<"b">>
    THEN << [name |-> <<"t", "o">>, type |-> "address"],
            [name |-> <<"n">>, type |-> "i128"] >>
    ELSE IF contractId = "CB" /\ func_name = <<"b">>
    THEN << [name |-> <<"1">>, type |-> "address"],
            [name |-> <<"0">>, type |-> "i128"] >>
    ELSE IF contractId = "CB" /\ func_name = <<"_", "x">>
    THEN << [name |-> <<"z">>, type |-> "i128"],
            [name |-> <<"a">>, type |-> "address"] >>
    ELSE <<>>

(***************************************************************************)
(* The parameter schema of a tool (part_000 lines 67-79, 88) and the       *)
(* arguments its handler receives (line 96).  A Map and an object are      *)
(* sequences of entries in iteration order; argument strings are sequences *)
(* of characters.                                                          *)
(***************************************************************************)
\* contract.spec.nativeToScVal(val, type) throws for a string that is not a
\* strkey (type address) or not an integer literal (type i128)
NativeToScValThrows(val, type) ==
    IF type = "address"
    THEN ~(Len(val) = 2 /\ val[1] \in {"G", "C"} /\ val[2] \in Letters)
    ELSE ~IsIntegerLiteral(val)

\* the ScVal of a well-formed string
nativeToScVal(val, type) == [type |-> type, val |-> val]

\* params.set(name, schema): a name set before keeps its place
MapSet(m, e) ==
    IF \E i \in 1..Len(m) : m[i].name = e.name
    THEN [i \in 1..Len(m) |-> IF m[i].name = e.name THEN e ELSE m[i]]
    ELSE Append(m, e)

\* for (let input of func.inputs()) { params.set(...) }
RECURSIVE ParamsMap(_, _)
ParamsMap(m, inputs) ==
    IF inputs = <<>> THEN m
    ELSE ParamsMap(MapSet(m, Head(inputs)), Tail(inputs))

\* a property key that is a canonical array index
IsArrayIndex(s) == IsIntegerLiteral(s) /\ StripLeadingZeros(s) = s

DigitValue(d) == CHOOSE n \in 0..9 : <<"0", "1", "2", "3", "4", "5", "6", "7", "8", "9">>[n + 1] = d

RECURSIVE IndexValue(_)
IndexValue(s) ==
    IF s = <<>> THEN 0
    ELSE 10 * IndexValue(SubSeq(s, 1, Len(s) - 1)) + DigitValue(s[Len(s)])

\* entries with array-index keys, in ascending numeric order
RECURSIVE Ascending(_)
Ascending(m) ==
    IF m = <<>> THEN <<>>
    ELSE LET k == CHOOSE i \in 1..Len(m) :
                    \A j \in 1..Len(m) : IndexValue(m[i].name) <= IndexValue(m[j].name)
         IN <<m[k]>> \o Ascending(SubSeq(m, 1, k - 1) \o SubSeq(m, k + 1, Len(m)))

\* Object.fromEntries(params): the own keys of an object are its array
\* indices in ascending order, then its other keys in insertion order
ObjectFromEntries(m) ==
    Ascending(SelectSeq(m, LAMBDA e : IsArrayIndex(e.name)))
        \o SelectSeq(m, LAMBDA e : ~IsArrayIndex(e.name))

\* the schema handed to server.tool
ParamsSchema(contractId, func_name) ==
    ObjectFromEntries(ParamsMap(<<>>, FuncInputs(contractId, func_name)))

\* the value the caller supplied under a name
ValueOf(supplied, name) ==
    supplied[CHOOSE k \in 1..Len(supplied) : supplied[k].name = name].val

\* the schema is parsed before the handler is called: a transform that
\* throws ends the request
SchemaRejects(shape, supplied) ==
    \E k \in 1..Len(shape) :
        NativeToScValThrows(ValueOf(supplied, shape[k].name), shape[k].type)

\* Object.values(params) of the parsed object, whose keys are the schema's
ObjectValues(shape, supplied) ==
    [k \in 1..Len(shape) |->
        nativeToScVal(ValueOf(supplied, shape[k].name), shape[k].type)]

(***************************************************************************)
(* Tool id derivation (part_000 lines 81-83).                              *)
(***************************************************************************)
MaxToolNameLen == 64

\* /[^a-zA-Z0-9_-]/g replaced by '_'
Sanitize(s) ==
    [i \in 1..Len(s) |->
        IF s[i] \in Letters \cup Digits \cup {"_", "-"} THEN s[i] ELSE "_"]

\* variant: the id is not cut
SubstringKeepsAll(s, n) == s

\* substring(0, n)
Substring0(s, n) == IF Len(s) <= n THEN s ELSE SubSeq(s, 1, n)

\* func_name.includes("__")
IncludesDoubleUnderscore(s) ==
    \E i \in 1..(Len(s) - 1) : s[i] = "_" /\ s[i + 1] = "_"

\* String.prototype.replace with a string pattern: the first occurrence only
ReplaceFirstDoubleUnderscore(s) ==
    IF IncludesDoubleUnderscore(s)
    THEN LET i == CHOOSE k \in 1..(Len(s) - 1) :
                    /\ s[k] = "_" /\ s[k + 1] = "_"
                    /\ \A j \in 1..(k - 1) : ~(s[j] = "_" /\ s[j + 1] = "_")
         IN SubSeq(s, 1, i) \o SubSeq(s, i + 2, Len(s))
    ELSE s

\* variant: the id ends in a counter, the number of rows tracked so far
ToolNameNumbered(contract_name, func_name) ==
    Sanitize(contract_name.s \o <<"_">> \o func_name)
        \o <<"-", <<"0", "1", "2", "3", "4">>[Len(contracts) + 1]>>

\* `${contract_name}: ${func_name}`: contract_name is the stored value of the
\* name column (a number prints as its decimal digits)
ToolName(contract_name, func_name) ==
    ReplaceFirstDoubleUnderscore(
        Substring0(Sanitize(contract_name.s \o <<":", " ">> \o func_name),
                   MaxToolNameLen))

(***************************************************************************)
(* MyMCP.init: the registration loop over the tracked contracts, then the  *)
(* six management tools.  reg is the McpServer's registry so far and       *)
(* whether an exception has left init.  A session records whether          *)
(* getContracts answered (listed) and the list it answered (tracked).      *)
(* walletAtInit is the address of the user's wallet record when init ran;  *)
(* init does not read it, the field only remembers it.                     *)
(***************************************************************************)
ManagementTools ==
    {"setContractAddress", "getContractAddresses", "removeContractAddress",
     "setWallet", "getWallet", "deployToken"}

EmptyRegistry == [tools |-> <<>>, aborted |-> FALSE]

Registered(reg, id) == \E i \in 1..Len(reg.tools) : reg.tools[i].id = id

\* an exception propagates out of init
InitThrows(reg) == [reg EXCEPT !.aborted = TRUE]

\* server.tool(toolName, ...): McpServer refuses a name it already holds
ServerTool(reg, id, contractId, func_name) ==
    IF Registered(reg, id)
    THEN InitThrows(reg)
    ELSE [reg EXCEPT !.tools =
            Append(@, [id |-> id, contractId |-> contractId, func |-> func_name,
                       shape |-> ParamsSchema(contractId, func_name)])]

\* for (let func of contract.spec.funcs()) { ... }
RECURSIVE RegisterFuncs(_, _, _, _)
RegisterFuncs(reg, contract_name, contractId, funcs) ==
    IF funcs = <<>> \/ reg.aborted THEN reg
    ELSE IF IncludesDoubleUnderscore(Head(funcs))
         THEN RegisterFuncs(reg, contract_name, contractId, Tail(funcs))
         ELSE RegisterFuncs(
                ServerTool(reg, ToolName(contract_name, Head(funcs)),
                           contractId, Head(funcs)),
                contract_name, contractId, Tail(funcs))

\* variant: the fetch failure is not caught
SkipContractRethrows(reg) == [reg EXCEPT !.aborted = TRUE]

\* catch { continue }
SkipContract(reg) == reg

\* Client.fromWasm rejects outside the try block
FromWasmFailure(reg) == InitThrows(reg)

\* for (let [contract_name, contractId] of contractIds) { ... }
RECURSIVE RegisterContracts(_, _)
RegisterContracts(reg, contractIds) ==
    IF contractIds = <<>> \/ reg.aborted THEN reg
    ELSE LET c == Head(contractIds)
             next ==
                IF GetWasmThrows(c.address) THEN SkipContract(reg)
                ELSE IF FromWasmThrows(c.address) THEN FromWasmFailure(reg)
                ELSE RegisterFuncs(reg, c.name, c.address, SpecFuncs(c.address))
         IN RegisterContracts(next, Tail(contractIds))

NoSession ==
    [status |-> "none", listed |-> FALSE, tracked |-> <<>>, tools |-> <<>>, mgmt |-> {},
     walletAtInit |-> "none"]

\* the whole of init() for the session of `login`; it starts with
\* `await stub.getContracts(login)`, which rejects while the tables are gone
InitResult(login) ==
    LET contractIds == SelectContracts(contracts, login)
        reg == IF ~tables THEN InitThrows(EmptyRegistry)
               ELSE RegisterContracts(EmptyRegistry, contractIds)
    IN [status |-> IF reg.aborted THEN "failed" ELSE "ready",
        listed |-> tables,
        tracked |-> IF tables THEN contractIds ELSE <<>>,
        tools |-> reg.tools,
        mgmt |-> IF reg.aborted THEN {} ELSE ManagementTools,
        walletAtInit |-> IF ~tables \/ SelectAddress(addresses, login) = <<>>
                         THEN "none"
                         ELSE SelectAddress(addresses, login)[1].address]

\* the invocation record of a handler that has just been entered
NoSim == [kind |-> "none", auth |-> {}, writes |-> 0, retval |-> "none"]
NoResp ==
    [kind |-> "none", result |-> "none", success |-> "none", error |-> "none",
     caught |-> "none"]
NoTool == [id |-> <<>>, contractId |-> "", func |-> <<>>, shape |-> <<>>]

Started(handler, tool, pc) ==
    [pc |-> pc, handler |-> handler, tool |-> tool, supplied |-> <<>>,
     op |-> NoTool, args |-> <<>>, sim |-> NoSim,
     class |-> "none", lookup |-> "none", signs |-> 0, sends |-> 0,
     signedFor |-> "none", envelopes |-> 0, resp |-> NoResp, steps |-> <<>>]

\* the handler reaches a statement of its body: the statement is entered in
\* steps; an awaited call has a second entry when its promise settles
Step(r, e) == [r EXCEPT !.steps = Append(@, e)]

NoToolCall ==
    [tool |-> "none", login |-> <<>>, outcome |-> "none", msg |-> "none", arg |-> <<>>]

Idle(login) == inv[login].pc \in {"idle", "done", "escaped"}

\* a session of `login` starts: the agent is constructed and init() runs
init(login) ==
    /\ session[login].status = "none"
    /\ pending[login] = <<>>
    /\ session' = [session EXCEPT ![login] = InitResult(login)]
    /\ UNCHANGED <<tables, contracts, addresses, storeCall, inv, pending, passkeyWallet, ledger, toolCall>>

\* the client reloads: the session ends, the next one starts from scratch
reload(login) ==
    /\ session[login].status # "none"
    /\ Idle(login)
    /\ pending[login] = <<>>
    /\ session' = [session EXCEPT ![login] = NoSession]
    /\ inv' = [inv EXCEPT ![login] = Started("none", NoTool, "idle")]
    /\ UNCHANGED <<tables, contracts, addresses, storeCall, pending, passkeyWallet, ledger, toolCall>>

(***************************************************************************)
(* The management tools.  A handler that awaits its store calls is one     *)
(* step; calls on one stub reach the store in the order they were made, so *)
(* an awaited call is answered only after the calls still pending on that  *)
(* stub.  toolCall records how the handler ended: "returned" with a        *)
(* response, or "threw" when an exception left the handler.                *)
(***************************************************************************)
MaxPending == 1       \* un-awaited store calls in flight per stub

Handled(tool, login, outcome, msg, arg) ==
    [tool |-> tool, login |-> login, outcome |-> outcome, msg |-> msg, arg |-> arg]

HasTool(login, tool) ==
    session[login].status = "ready" /\ tool \in session[login].mgmt

\* await stub.getAddress(login) rejects
GetAddressThrows(login) == ~tables \/ OneThrows(SelectAddress(addresses, login))

\* [address, sk] of a resolved stub.getAddress(login)
AddressSk(login) ==
    LET result == SelectAddress(addresses, login)
    IN <<result[1].address, result[1].sk>>

\* variant: the contract is added without the wallet lookup
setContractAddressNoLookup(login, name, address) ==
    /\ HasTool(login, "setContractAddress")
    /\ pending[login] = <<>>
    /\ Len(contracts) < MaxRows
    /\ IF ~IsAddress(address) \/ ~tables
       THEN /\ toolCall' = Handled("setContractAddress", login, "threw",
                                   "addContract rejected", <<>>)
            /\ UNCHANGED contracts
       ELSE /\ contracts' = InsertOrIgnoreContract(contracts, login, name, address)
            /\ toolCall' = Handled("setContractAddress", login, "returned",
                                   "Success! Now reload to see your new tools",
                                   <<address>>)
    /\ UNCHANGED <<tables, addresses, storeCall, session, inv, pending, passkeyWallet, ledger>>

setContractAddress(login, name, address) ==
    /\ HasTool(login, "setContractAddress")
    /\ pending[login] = <<>>
    /\ Len(contracts) < MaxRows
    /\ IF GetAddressThrows(login)
       THEN /\ toolCall' = Handled("setContractAddress", login, "threw",
                                   "getAddress rejected", <<>>)
            /\ UNCHANGED contracts
       ELSE IF ~IsAddress(address)
       THEN /\ toolCall' = Handled("setContractAddress", login, "threw",
                                   "addContract rejected", <<>>)
            /\ UNCHANGED contracts
       ELSE /\ contracts' = InsertOrIgnoreContract(contracts, login, name, address)
            /\ toolCall' = Handled("setContractAddress", login, "returned",
                                   "Success! Now reload to see your new tools",
                                   <<address, AddressSk(login)[2]>>)
    /\ UNCHANGED <<tables, addresses, storeCall, session, inv, pending, passkeyWallet, ledger>>

getContractAddresses(login) ==
    /\ HasTool(login, "getContractAddresses")
    /\ pending[login] = <<>>
    /\ toolCall' =
         IF ~tables
         THEN Handled("getContractAddresses", login, "threw",
                      "getContracts rejected", <<>>)
         ELSE Handled("getContractAddresses", login, "returned",
                      "contracts", SelectContracts(contracts, login))
    /\ UNCHANGED <<tables, contracts, addresses, storeCall, session, inv, pending,
                   passkeyWallet, ledger>>

\* variant: the tools of the removed contract are taken off the registry
removeContractAddressUnregisters(login, address) ==
    /\ HasTool(login, "removeContractAddress")
    /\ Len(pending[login]) < MaxPending
    /\ pending' = [pending EXCEPT ![login] =
                     Append(@, [op |-> "removeContract", address |-> address])]
    /\ toolCall' = Handled("removeContractAddress", login, "returned",
                           "Success! Now reload to see your new tools", <<>>)
    /\ session' = [session EXCEPT ![login].tools =
                     SelectSeq(@, LAMBDA t : t.contractId # address)]
    /\ UNCHANGED <<tables, contracts, addresses, storeCall, inv, passkeyWallet, ledger>>

removeContractAddress(login, address) ==
    /\ HasTool(login, "removeContractAddress")
    /\ Len(pending[login]) < MaxPending
    /\ pending' = [pending EXCEPT ![login] =
                     Append(@, [op |-> "removeContract", address |-> address])]
    /\ toolCall' = Handled("removeContractAddress", login, "returned",
                           "Success! Now reload to see your new tools", <<>>)
    /\ UNCHANGED <<tables, contracts, addresses, storeCall, session, inv, passkeyWallet, ledger>>

setWallet(login, w) ==
    /\ HasTool(login, "setWallet")
    /\ Len(pending[login]) < MaxPending
    /\ pending' = [pending EXCEPT ![login] =
                     Append(@, [op |-> "setAddress", address |-> w])]
    /\ toolCall' = Handled("setWallet", login, "returned",
                           "Wallet address set to", <<w>>)
    /\ UNCHANGED <<tables, contracts, addresses, storeCall, session, inv, passkeyWallet, ledger>>

getWallet(login) ==
    /\ HasTool(login, "getWallet")
    /\ pending[login] = <<>>
    /\ toolCall' =
         IF GetAddressThrows(login)
         THEN Handled("getWallet", login, "threw", "getAddress rejected", <<>>)
         ELSE Handled("getWallet", login, "returned", "Wallet address is",
                      <<AddressSk(login)[1]>>)
    /\ UNCHANGED <<tables, contracts, addresses, storeCall, session, inv, pending,
                   passkeyWallet, ledger>>

\* the store runs the oldest un-awaited call of a stub; nobody holds the
\* promise, so a rejection (malformed address) is seen by no handler
storeRuns(login, sk) ==
    /\ pending[login] # <<>>
    /\ LET call == Head(pending[login])
       IN IF ~IsAddress(call.address) \/ ~tables
          THEN UNCHANGED <<contracts, addresses>>
          ELSE IF call.op = "removeContract"
          THEN /\ contracts' = DeleteContract(contracts, login, call.address)
               /\ UNCHANGED <<tables, addresses>>
          ELSE /\ addresses' = InsertOrIgnoreAddress(addresses, login, call.address, sk)
               /\ UNCHANGED contracts
    /\ pending' = [pending EXCEPT ![login] = Tail(@)]
    /\ UNCHANGED <<tables, storeCall, session, inv, passkeyWallet, ledger, toolCall>>

(***************************************************************************)
(* The handler of a synthesized contract-function tool (part_000 lines     *)
(* 89-147) and of deployToken, one step per await.  inv[login] is the      *)
(* invocation in flight:                                                   *)
(*   pc         where the handler is suspended; "done" once it returned an *)
(*              envelope, "escaped" if an exception left it                *)
(*   sim        what buildWithOp's simulation produced                     *)
(*   class      the branch taken at `if (at.isReadCall)`                   *)
(*   lookup     the wallet lookup: "none", "asked", "found", "absent"      *)
(*   signs, sends   wallet.sign / server.send calls started                *)
(*   signedFor  the wallet contract the signature was made against         *)
(*   envelopes  responses returned;  resp: the response                    *)
(*   steps      the statements executed so far, in execution order         *)
(***************************************************************************)
MaxLedger == 2        \* invocations start while the ledger holds fewer transactions

\* Authorization entries a simulation may report: one whose credentials are
\* the transaction's source account (the invoker), one for another address.
AuthEntries == {"sourceAccount", "GA"}
Retvals == {"r1", "r2"}

\* What `await AssembledTransaction.buildWithOp(...)` and the reads of the
\* simulation can come to:
\*   buildThrows   assembling the operation or the RPC round trip failed
\*   simError      the ledger answered with a simulation error; the
\*                 simulationData getter throws
\*   undecodable   decode("ScVal", ...) throws
\*   ok            a result with its authorization entries, read-write
\*                 footprint size and return value
SimOutcomes ==
    {[kind |-> k, auth |-> {}, writes |-> 0, retval |-> "none"] :
        k \in {"buildThrows", "simError", "undecodable"}}
    \cup {[kind |-> "ok", auth |-> a, writes |-> w, retval |-> r] :
            a \in SUBSET AuthEntries, w \in {0, 1}, r \in Retvals}

\* variant: only the authorization entries are looked at
isReadCallAuthOnly(sim) == sim.auth = {}

\* at.isReadCall: no authorization entry at all and an empty read-write
\* footprint
isReadCall(sim) == sim.auth = {} /\ sim.writes = 0

\* at.needsNonInvokerSigningBy(): the addresses of the entries with address
\* credentials
needsNonInvokerSigningBy(sim) == sim.auth \ {"sourceAccount"}

\* decode("ScVal", retval): the JSON text of the value
Decode(retval) == <<"json", retval>>

\* variant: no catch block, the exception leaves the handler
UncaughtError(r, err) == [r EXCEPT !.pc = "escaped"]

\* The values the awaited calls throw.  An instance of Error (the sdk's
\* SimulationFailedError from the simulationData getter, the rejection of a
\* store call, a signing or decoding failure) has no enumerable own property:
\* message and stack are not enumerable.  The relay's error body (server.send
\* throws the parsed response) and the RPC's { code, message } are plain
\* objects.
ErrorInstances == {"simError", "undecodable", "noWallet", "signFailed"}

\* JSON.stringify(err): the enumerable own properties of the value
JSONStringify(err) == IF err \in ErrorInstances THEN "{}" ELSE err

\* catch (err) { return { content: [JSON.stringify(err)] } }; caught
\* remembers the value that was thrown
CatchError(r, err) ==
    [r EXCEPT !.pc = "done", !.envelopes = @ + 1,
              !.resp = [kind |-> "error", result |-> "none",
                        success |-> "none", error |-> JSONStringify(err),
                        caught |-> err]]

\* return { content: [...] }
Return(r, kind, result, success) ==
    [r EXCEPT !.pc = "done", !.envelopes = @ + 1,
              !.resp = [kind |-> kind, result |-> result,
                        success |-> success, error |-> "none",
                        caught |-> "none"]]

\* variant: the read branch falls through to the wallet lookup
ReadBranchSubmits(r, json) ==
    Step([r EXCEPT !.pc = "lookup", !.lookup = "asked"], "lookup")

\* if (at.isReadCall) { return json }
ReadBranch(r, json) == Return(r, "result", json, "none")

\* else { const address_sk = await stub.getAddress(...) ...
MutationBranch(r) ==
    Step([r EXCEPT !.pc = "lookup", !.lookup = "asked"], "lookup")

\* the argument objects a caller can send to a tool: a string under each
\* name of its schema
ArgValues == {<<"G", "A">>, <<"5">>}

SuppliedArgs(tool) ==
    {[k \in 1..Len(tool.shape) |-> [name |-> tool.shape[k].name, val |-> v[k]]] :
        v \in [1..Len(tool.shape) -> ArgValues]}

WellFormedArgs(tool) ==
    {supplied \in SuppliedArgs(tool) : ~SchemaRejects(tool.shape, supplied)}

\* variant: the handler is entered with the arguments as they were sent
invokeUnparsed(login, i, supplied) ==
    /\ session[login].status = "ready"
    /\ i \in 1..Len(session[login].tools)
    /\ Idle(login)
    /\ ledger < MaxLedger
    /\ LET tool == session[login].tools[i]
       IN inv' = [inv EXCEPT ![login] =
                    Step([Started("contract", tool, "simulate")
                            EXCEPT !.supplied = supplied, !.op = tool,
                                   !.args = [k \in 1..Len(supplied) |->
                                               nativeToScVal(supplied[k].val,
                                                             tool.shape[k].type)]],
                         "simulate")]
    /\ UNCHANGED <<tables, contracts, addresses, storeCall, session, pending,
                   passkeyWallet, ledger, toolCall>>

\* variant: the handler sees the loop variables as the last iteration left
\* them
invokeLastIteration(login, i, supplied) ==
    /\ session[login].status = "ready"
    /\ i \in 1..Len(session[login].tools)
    /\ Idle(login)
    /\ ledger < MaxLedger
    /\ LET tool == session[login].tools[i]
           last == session[login].tools[Len(session[login].tools)]
       IN IF SchemaRejects(tool.shape, supplied)
          THEN /\ toolCall' = Handled("contractTool", login, "rejected",
                                      "invalid arguments", tool.id)
               /\ UNCHANGED inv
          ELSE /\ inv' = [inv EXCEPT ![login] =
                            Step([Started("contract", tool, "simulate")
                                    EXCEPT !.supplied = supplied, !.op = last,
                                           !.args = ObjectValues(tool.shape, supplied)],
                                 "simulate")]
               /\ UNCHANGED toolCall
    /\ UNCHANGED <<tables, contracts, addresses, storeCall, session, pending,
                   passkeyWallet, ledger>>

\* the user calls the tool registered at position i of the session's registry
\* with an argument object.  The server parses the arguments with the tool's
\* schema first; the handler is called with the parsed object and starts
\* buildWithOp on the contract and function of its closure.
invoke(login, i, supplied) ==
    /\ session[login].status = "ready"
    /\ i \in 1..Len(session[login].tools)
    /\ Idle(login)
    /\ ledger < MaxLedger
    /\ LET tool == session[login].tools[i]
       IN IF SchemaRejects(tool.shape, supplied)
          THEN /\ toolCall' = Handled("contractTool", login, "rejected",
                                      "invalid arguments", tool.id)
               /\ UNCHANGED inv
          ELSE /\ inv' = [inv EXCEPT ![login] =
                            Step([Started("contract", tool, "simulate")
                                    EXCEPT !.supplied = supplied, !.op = tool,
                                           !.args = ObjectValues(tool.shape, supplied)],
                                 "simulate")]
               /\ UNCHANGED toolCall
    /\ UNCHANGED <<tables, contracts, addresses, storeCall, session, pending,
                   passkeyWallet, ledger>>

\* buildWithOp settles; the handler runs on to its return or its next await
simulated(login, sim) ==
    /\ inv[login].pc = "simulate"
    /\ inv[login].handler = "contract"
    /\ LET r == Step([inv[login] EXCEPT !.sim = sim], "simulate settled")
           decoded == Step(r, "decode")
       IN inv' = [inv EXCEPT ![login] =
            IF sim.kind \in {"buildThrows", "simError"}
            THEN CatchError(r, sim.kind)
            ELSE IF sim.kind = "undecodable"
            THEN CatchError(decoded, sim.kind)
            ELSE IF isReadCall(sim)
            THEN ReadBranch(Step([decoded EXCEPT !.class = "Read"], "classify"),
                            Decode(sim.retval))
            ELSE MutationBranch(
                    Step([decoded EXCEPT !.class = "Mutation"], "classify"))]
    /\ UNCHANGED <<tables, contracts, addresses, storeCall, session, pending,
                   passkeyWallet, ledger, toolCall>>

\* variant: a lookup that finds no row resolves (with nothing) instead of
\* rejecting
LookupAlwaysResolves(login) == FALSE

\* the handler's `await stub.getAddress(this.props.login)` rejects
LookupRejects(login) == GetAddressThrows(login)

\* variant: the wallet read once, when the session was initialised
LookupAddressAtInit(login) == session[login].walletAtInit

\* [address, sk] as the handler destructures it
LookupAddress(login) ==
    IF SelectAddress(addresses, login) = <<>> THEN "undefined"
    ELSE SelectAddress(addresses, login)[1].address

\* variant: wallet.sign is called without await, server.send follows at once
lookedUpSignNotAwaited(login) ==
    /\ inv[login].pc = "lookup"
    /\ inv[login].handler = "contract"
    /\ pending[login] = <<>>
    /\ IF LookupRejects(login)
       THEN /\ inv' = [inv EXCEPT ![login] =
                         CatchError(Step([@ EXCEPT !.lookup = "absent"],
                                         "lookup settled"), "noWallet")]
            /\ UNCHANGED passkeyWallet
       ELSE /\ inv' = [inv EXCEPT ![login] =
                         Step(Step(Step([@ EXCEPT !.lookup = "found",
                                                  !.pc = "send", !.signs = @ + 1,
                                                  !.sends = @ + 1,
                                                  !.signedFor = LookupAddress(login)],
                                        "lookup settled"), "sign"), "submit")]
            /\ passkeyWallet' = LookupAddress(login)
    /\ UNCHANGED <<tables, contracts, addresses, storeCall, session, pending, ledger, toolCall>>

\* stub.getAddress settles; on success wallet.wallet is replaced and
\* wallet.sign is called.  wallet.sign hands this.wallet.options.contractId
\* to signAuthEntries before its first await, so the address the signature
\* is made against is the one installed in this same step.
lookedUp(login) ==
    /\ inv[login].pc = "lookup"
    /\ inv[login].handler = "contract"
    /\ pending[login] = <<>>
    /\ IF LookupRejects(login)
       THEN /\ inv' = [inv EXCEPT ![login] =
                         CatchError(Step([@ EXCEPT !.lookup = "absent"],
                                         "lookup settled"), "noWallet")]
            /\ UNCHANGED passkeyWallet
       ELSE /\ inv' = [inv EXCEPT ![login] =
                         Step(Step([@ EXCEPT !.lookup =
                                        IF SelectAddress(addresses, login) = <<>>
                                        THEN "absent" ELSE "found",
                                      !.pc = "sign", !.signs = @ + 1,
                                      !.signedFor = LookupAddress(login)],
                                   "lookup settled"), "sign")]
            /\ passkeyWallet' = LookupAddress(login)
    /\ UNCHANGED <<tables, contracts, addresses, storeCall, session, pending, ledger, toolCall>>

\* variant: the signature is made against the wallet the shared client
\* holds when wallet.sign settles
signedReadsSharedWallet(login, ok) ==
    /\ inv[login].pc = "sign"
    /\ inv[login].handler = "contract"
    /\ inv' = [inv EXCEPT ![login] =
                 IF ok
                 THEN Step(Step([@ EXCEPT !.pc = "send", !.sends = @ + 1,
                                          !.signedFor = passkeyWallet],
                                "sign settled"), "submit")
                 ELSE CatchError(Step(@, "sign settled"), "signFailed")]
    /\ UNCHANGED <<tables, contracts, addresses, storeCall, session, pending,
                   passkeyWallet, ledger, toolCall>>

\* wallet.sign settles; on success server.send is called
signed(login, ok) ==
    /\ inv[login].pc = "sign"
    /\ inv[login].handler = "contract"
    /\ inv' = [inv EXCEPT ![login] =
                 IF ok
                 THEN Step(Step([@ EXCEPT !.pc = "send", !.sends = @ + 1],
                                "sign settled"), "submit")
                 ELSE CatchError(Step(@, "sign settled"), "signFailed")]
    /\ UNCHANGED <<tables, contracts, addresses, storeCall, session, pending,
                   passkeyWallet, ledger, toolCall>>

\* variant: a failed submission is submitted once more
sentRetries(login, ok) ==
    /\ inv[login].pc = "send"
    /\ inv[login].handler = "contract"
    /\ IF ok
       THEN /\ ledger' = ledger + 1
            /\ inv' = [inv EXCEPT ![login] =
                         Return(Step(@, "submit settled"), "resultAndOutcome",
                                Decode(@.sim.retval), "relayed")]
       ELSE /\ ledger' = ledger
            /\ inv' = [inv EXCEPT ![login] =
                         IF @.sends < 2
                         THEN Step(Step([@ EXCEPT !.sends = @ + 1],
                                        "submit settled"), "submit")
                         ELSE CatchError(Step(@, "submit settled"), "sendFailed")]
    /\ UNCHANGED <<tables, contracts, addresses, storeCall, session, pending,
                   passkeyWallet, toolCall>>

\* server.send settles: the relay put the transaction on the ledger, or
\* reported a failure
sent(login, ok) ==
    /\ inv[login].pc = "send"
    /\ inv[login].handler = "contract"
    /\ IF ok
       THEN /\ ledger' = ledger + 1
            /\ inv' = [inv EXCEPT ![login] =
                         Return(Step(@, "submit settled"), "resultAndOutcome",
                                Decode(@.sim.retval), "relayed")]
       ELSE /\ ledger' = ledger
            /\ inv' = [inv EXCEPT ![login] =
                         CatchError(Step(@, "submit settled"), "sendFailed")]
    /\ UNCHANGED <<tables, contracts, addresses, storeCall, session, pending,
                   passkeyWallet, toolCall>>

(***************************************************************************)
(* deployToken (part_000 lines 275-305, part_001 lines 25-62): wallet      *)
(* lookup, Client.deploy (build and simulate), signAuthEntries with the    *)
(* deployer keypair, server.send.                                          *)
(***************************************************************************)
deployToken(login) ==
    /\ HasTool(login, "deployToken")
    /\ Idle(login)
    /\ ledger < MaxLedger
    /\ inv' = [inv EXCEPT ![login] =
                 Step([Started("deployToken", NoTool, "lookup")
                         EXCEPT !.lookup = "asked"], "lookup")]
    /\ UNCHANGED <<tables, contracts, addresses, storeCall, session, pending,
                   passkeyWallet, ledger, toolCall>>

\* stub.getAddress settles; on success deployNewFungiblePausableToken is
\* entered and Client.deploy called
deployLookedUp(login) ==
    /\ inv[login].pc = "lookup"
    /\ inv[login].handler = "deployToken"
    /\ pending[login] = <<>>
    /\ inv' = [inv EXCEPT ![login] =
                 IF GetAddressThrows(login)
                 THEN CatchError(Step([@ EXCEPT !.lookup = "absent"],
                                      "lookup settled"), "noWallet")
                 ELSE Step(Step([@ EXCEPT !.lookup = "found", !.pc = "simulate"],
                                "lookup settled"), "build")]
    /\ UNCHANGED <<tables, contracts, addresses, storeCall, session, pending,
                   passkeyWallet, ledger, toolCall>>

\* variant: the contract address of the simulation is returned at once
deployBuiltReturnsSimulated(login, ok) ==
    /\ inv[login].pc = "simulate"
    /\ inv[login].handler = "deployToken"
    /\ inv' = [inv EXCEPT ![login] =
                 IF ok THEN Return(Step(@, "build settled"), "deployed",
                                   <<"contractId", "new">>, "none")
                 ELSE CatchError(Step(@, "build settled"), "buildThrows")]
    /\ UNCHANGED <<tables, contracts, addresses, storeCall, session, pending,
                   passkeyWallet, ledger, toolCall>>

\* Client.deploy settles; on success at.signAuthEntries is called
deployBuilt(login, ok) ==
    /\ inv[login].pc = "simulate"
    /\ inv[login].handler = "deployToken"
    /\ inv' = [inv EXCEPT ![login] =
                 IF ok THEN Step(Step([@ EXCEPT !.pc = "sign", !.signs = @ + 1],
                                      "build settled"), "sign")
                 ELSE CatchError(Step(@, "build settled"), "buildThrows")]
    /\ UNCHANGED <<tables, contracts, addresses, storeCall, session, pending,
                   passkeyWallet, ledger, toolCall>>

\* signAuthEntries settles; on success server.send is called
deploySigned(login, ok) ==
    /\ inv[login].pc = "sign"
    /\ inv[login].handler = "deployToken"
    /\ inv' = [inv EXCEPT ![login] =
                 IF ok THEN Step(Step([@ EXCEPT !.pc = "send", !.sends = @ + 1,
                                            !.signedFor = "deployer"],
                                      "sign settled"), "submit")
                 ELSE CatchError(Step(@, "sign settled"), "signFailed")]
    /\ UNCHANGED <<tables, contracts, addresses, storeCall, session, pending,
                   passkeyWallet, ledger, toolCall>>

\* server.send settles
deploySent(login, ok) ==
    /\ inv[login].pc = "send"
    /\ inv[login].handler = "deployToken"
    /\ IF ok
       THEN /\ ledger' = ledger + 1
            /\ inv' = [inv EXCEPT ![login] =
                         Return(Step(@, "submit settled"), "deployed",
                                <<"contractId", "new">>, "relayed")]
       ELSE /\ ledger' = ledger
            /\ inv' = [inv EXCEPT ![login] =
                         CatchError(Step(@, "submit settled"), "sendFailed")]
    /\ UNCHANGED <<tables, contracts, addresses, storeCall, session, pending,
                   passkeyWallet, toolCall>>

(***************************************************************************)
(* Specifications.                                                         *)
(***************************************************************************)
Logins == StoreLogins

AppInit ==
    /\ session = [l \in Logins |-> NoSession]
    /\ inv = [l \in Logins |-> Started("none", NoTool, "idle")]
    /\ pending = [l \in Logins |-> <<>>]
    /\ passkeyWallet = "none"
    /\ ledger = 0
    /\ toolCall = NoToolCall

Init == StoreInit /\ AppInit

\* SpecStore: the store object alone, called with any login, name, address.
StoreNext ==
    \/ \E l \in StoreLogins, n \in StoreNames, a \in {"CA", "CB", "bad"} :
          addContract(l, n, a)
    \/ \E l \in StoreLogins, a \in {"CA", "CB", "bad"} : removeContract(l, a)
    \/ \E l \in StoreLogins : getContracts(l)
    \/ \E l \in StoreLogins, w \in WalletAddresses \cup Malformed, sk \in Secrets :
          setAddress(l, w, sk)
    \/ \E l \in StoreLogins : getAddress(l)
    \/ dropTables
    \/ createTables

SpecStore == Init /\ [][StoreNext]_vars

\* SpecInit: one user's sessions over every tracked list of the ledger's
\* four contracts.
User == <<"u">>
InitNames == {<<"T">>, <<"K">>}

InitNext ==
    \/ init(User)
    \/ reload(User)
    \/ setWallet(User, "GA")
    \/ \E sk \in {"S1"} : storeRuns(User, sk)
    \/ \E n \in InitNames, a \in ContractAddresses : setContractAddress(User, n, a)
    \/ \E a \in ContractAddresses : removeContractAddress(User, a)
    \/ dropTables
    \/ createTables

SpecInit == Init /\ [][InitNext]_vars

\* Spec: one user's session with every tool and the invocation pipeline.
Next ==
    \/ init(User)
    \/ reload(User)
    \/ \E w \in {"GA", "GB", "bad"} : setWallet(User, w)
    \/ storeRuns(User, "S1")
    \/ \E a \in {"CA", "bad"} : setContractAddress(User, <<"T">>, a)
    \/ \E a \in {"CA", "bad"} : removeContractAddress(User, a)
    \/ getContractAddresses(User)
    \/ getWallet(User)
    \/ \E i \in 1..Len(session[User].tools) :
          \E supplied \in WellFormedArgs(session[User].tools[i]) :
             invoke(User, i, supplied)
    \/ \E sim \in SimOutcomes : simulated(User, sim)
    \/ lookedUp(User)
    \/ \E ok \in BOOLEAN : signed(User, ok)
    \/ \E ok \in BOOLEAN : sent(User, ok)
    \/ deployToken(User)
    \/ deployLookedUp(User)
    \/ \E ok \in BOOLEAN : deployBuilt(User, ok)
    \/ \E ok \in BOOLEAN : deploySigned(User, ok)
    \/ \E ok \in BOOLEAN : deploySent(User, ok)
    \/ dropTables
    \/ createTables

Spec == Init /\ [][Next]_vars

\* SpecPair: two users' sessions in one isolate, which share the module-level
\* passkey-kit client; each user has a wallet of their own and tracks one
\* contract under the same name.
PairLogins == {<<"u">>, <<"7">>}
WalletOf(l) == IF l = <<"u">> THEN "GA" ELSE "GB"
ContractOf(l) == IF l = <<"u">> THEN "CA" ELSE "CB"
PairSims ==
    {sim \in SimOutcomes :
        sim.kind = "ok" /\ sim.retval = "r1" /\ sim.auth \in {{}, {"GA"}}
            /\ sim.writes = 0}

PairNext ==
    \E l \in PairLogins :
        \/ init(l)
        \/ reload(l)
        \/ setWallet(l, WalletOf(l))
        \/ storeRuns(l, "S1")
        \/ setContractAddress(l, <<"T">>, ContractOf(l))
        \/ \E supplied \in
                IF session[l].tools = <<>> THEN {}
                ELSE WellFormedArgs(session[l].tools[1]) :
              invoke(l, 1, supplied)
        \/ \E sim \in PairSims : simulated(l, sim)
        \/ lookedUp(l)
        \/ \E ok \in BOOLEAN : signed(l, ok)
        \/ \E ok \in BOOLEAN : sent(l, ok)

SpecPair == Init /\ [][PairNext]_vars

\* SpecNames: one user's sessions over tracked contracts whose names span the
\* strings setContractAddress accepts (z.string(): any characters, any
\* length): short, with blanks and punctuation, numeric, and long enough for
\* the id to be cut.
MaxNameLen == 66      \* length of the longest contract name tracked

Repeat(c, n) == [i \in 1..n |-> c]

ToolIdNames ==
    {<<"T">>, <<"A", " ", " ", "B">>, <<"a", "_">>, <<"0", "7">>,
     <<"$", "-", "1">>,
     Repeat("n", MaxNameLen - 6), Repeat("n", MaxNameLen - 4),
     <<".">> \o Repeat("n", MaxNameLen - 1)}

NamesNext ==
    \/ init(User)
    \/ reload(User)
    \/ setWallet(User, "GA")
    \/ storeRuns(User, "S1")
    \/ \E n \in ToolIdNames, a \in {"CA", "CB"} : setContractAddress(User, n, a)

SpecNames == Init /\ [][NamesNext]_vars

\* SpecArgs: one user's sessions over the contracts CA and CB tracked under
\* two names, every tool called with every argument object; simulations end
\* the call (a read, or a simulation error).
ArgsSims ==
    {sim \in SimOutcomes :
        \/ sim.kind = "simError"
        \/ sim.kind = "ok" /\ sim.retval = "r1" /\ sim.auth = {} /\ sim.writes = 0}

ArgsNext ==
    \/ init(User)
    \/ reload(User)
    \/ setWallet(User, "GA")
    \/ storeRuns(User, "S1")
    \/ \E n \in InitNames, a \in {"CA", "CB"} : setContractAddress(User, n, a)
    \/ \E i \in 1..Len(session[User].tools) :
          \E supplied \in SuppliedArgs(session[User].tools[i]) :
             invoke(User, i, supplied)
    \/ \E sim \in ArgsSims : simulated(User, sim)

SpecArgs == Init /\ [][ArgsNext]_vars

(***************************************************************************)
(* Claims about the contract-tool handler, properties of Spec.             *)
(***************************************************************************)
ContractInvocation(l) == inv[l].handler = "contract"

C1_ReadInvocationState ==
    \A l \in Logins :
        (ContractInvocation(l) /\ inv[l].class = "Read") =>
            /\ inv[l].lookup = "none"
            /\ inv[l].signs = 0
            /\ inv[l].sends = 0
            /\ inv[l].pc = "done"
            /\ inv[l].envelopes = 1
            /\ inv[l].resp = [kind |-> "result", result |-> Decode(inv[l].sim.retval),
                              success |-> "none", error |-> "none",
                              caught |-> "none"]

C1_ReadInvocationStep ==
    \A l \in Logins :
        (inv'[l] # inv[l] /\ inv'[l].handler = "contract"
            /\ inv'[l].class # "Mutation")
        => UNCHANGED <<tables, contracts, addresses, ledger, pending, passkeyWallet>>

\* C1: an invocation of a contract-function tool whose call is classified Read
\* does no wallet lookup, no signing and no relay submission, changes neither
\* the store nor the ledger, and answers with the decoded simulated return
\* value only.
C1_ReadHasNoSideEffect ==
    []C1_ReadInvocationState /\ [][C1_ReadInvocationStep]_vars

\* A Read invocation has returned its result on a ledger that earlier
\* mutations have changed.
C1_Witness ==
    /\ ContractInvocation(User)
    /\ inv[User].class = "Read"
    /\ inv[User].resp.kind = "result"
    /\ ledger > 0

Classified(l) == ContractInvocation(l) /\ inv[l].class # "none"

C3_NoWalletNoSubmission ==
    \A l \in Logins :
        (ContractInvocation(l) /\ inv[l].class = "Mutation"
            /\ inv[l].lookup = "absent") =>
            /\ inv[l].pc = "done"
            /\ inv[l].envelopes = 1
            /\ inv[l].resp.kind = "error"
            /\ inv[l].signs = 0
            /\ inv[l].sends = 0

\* A Mutation invocation of a user without a wallet record has ended (the
\* tool was registered before the tables were dropped and created anew).
C3_Witness ==
    /\ ContractInvocation(User)
    /\ inv[User].class = "Mutation"
    /\ inv[User].lookup = "absent"
    /\ tables
    /\ SelectAddress(addresses, User) = <<>>
    /\ inv[User].resp.caught = "noWallet"

\* C4: every invocation of a contract-function tool returns exactly one
\* response envelope, whichever step fails: none while the handler runs, one
\* once it has ended, and the handler never ends by letting an exception out.
C4_ExactlyOneEnvelope ==
    \A l \in Logins :
        ContractInvocation(l) =>
            /\ inv[l].pc # "escaped"
            /\ inv[l].envelopes = (IF inv[l].pc = "done" THEN 1 ELSE 0)
            /\ inv[l].pc = "done" <=> inv[l].resp.kind # "none"
            /\ inv[l].resp.kind = "error" <=> inv[l].resp.error # "none"

\* An invocation that failed at its last step, the submission, has returned
\* its single (error) envelope.
C4_Witness ==
    /\ ContractInvocation(User)
    /\ inv[User].pc = "done"
    /\ inv[User].envelopes = 1
    /\ inv[User].resp.error = "sendFailed"

\* C5: for every registered tool, any failure raised by the store, the ledger
\* client or the relay is turned into a returned response; no exception
\* leaves a tool handler.
C5_NoExceptionLeavesAHandler ==
    /\ toolCall.outcome # "threw"
    /\ \A l \in Logins : inv[l].pc # "escaped"

InFlight(l) == inv[l].handler \in {"contract", "deployToken"}

C11_SubmittedAtMostOnce ==
    \A l \in Logins :
        InFlight(l) =>
            /\ inv[l].sends <= 1
            /\ inv[l].pc = "send" => inv[l].sends = 1
            /\ inv[l].resp.success = "relayed" => inv[l].sends = 1

C11_RelayOutcomeReported ==
    \A l \in Logins :
        (InFlight(l) /\ inv[l].pc = "send" /\ inv'[l] # inv[l]) =>
            /\ inv'[l].pc = "done"
            /\ inv'[l].sends = inv[l].sends
            /\ ledger' \in {ledger, ledger + 1}
            /\ ledger' = ledger + 1 =>
                 /\ inv'[l].resp.kind \in {"resultAndOutcome", "deployed"}
                 /\ inv'[l].resp.success = "relayed"
                 /\ inv'[l].resp.error = "none"
            /\ ledger' = ledger =>
                 /\ inv'[l].resp.kind = "error"
                 /\ inv'[l].resp.error = "sendFailed"
                 /\ inv'[l].resp.success = "none"

C11_LedgerOnlyBySubmission ==
    ledger' # ledger => \E l \in Logins : InFlight(l) /\ inv[l].pc = "send"

\* C11: within one tool invocation the relay submission is attempted at most
\* once: once the submission has settled, failed or successful, the handler
\* ends without submitting again, the ledger changes only through that one
\* submission, and the envelope reports the relay's outcome (its success value
\* or its failure).
C11_AtMostOneSubmission ==
    /\ []C11_SubmittedAtMostOnce
    /\ [][C11_RelayOutcomeReported /\ C11_LedgerOnlyBySubmission]_vars

\* An invocation whose one submission the relay refused has ended with the
\* relay's failure, the ledger as it was before.
C11_Witness ==
    /\ ContractInvocation(User)
    /\ inv[User].sends = 1
    /\ inv[User].pc = "done"
    /\ inv[User].resp.error = "sendFailed"
    /\ ledger = 0

\* C18: the set of contract-function tools of a session is fixed at session
\* initialisation: no step of the session, setContractAddress and
\* removeContractAddress and the store calls they make included, adds,
\* removes or changes a registered contract tool; the registry changes only
\* when a session starts or ends.
C18_ToolsFixedAtInit ==
    [][\A l \in Logins :
          /\ (session[l].status # "none" /\ session'[l].status # "none")
                => session'[l] = session[l]
          /\ session'[l].tools # session[l].tools
                => \/ session[l] = NoSession
                   \/ session'[l] = NoSession]_vars

\* The user removed the tracked contract, the store has run the removal, and
\* the session still holds the contract's tools.
C18_Witness ==
    /\ session[User].status = "ready"
    /\ session[User].tools # <<>>
    /\ toolCall.tool = "removeContractAddress"
    /\ pending[User] = <<>>
    /\ storeCall.op = "none"
    /\ SelectContracts(contracts, User) = <<>>

\* the statements of the contract-tool handler, in the order of its text
ContractSteps ==
    <<"simulate", "simulate settled", "decode", "classify",
      "lookup", "lookup settled", "sign", "sign settled",
      "submit", "submit settled">>

IsPrefix(s, t) == Len(s) <= Len(t) /\ SubSeq(t, 1, Len(s)) = s

StepsBefore(l, early, late) ==
    \A i, j \in 1..Len(inv[l].steps) :
        (inv[l].steps[i] \in early /\ inv[l].steps[j] \in late) => i < j

\* a step has started only after the awaited step before it has settled
StartsAfterSettled(l, step, before) ==
    \A j \in 1..Len(inv[l].steps) :
        inv[l].steps[j] = step => (j > 1 /\ inv[l].steps[j - 1] = before)

C12_NoStepBeforeSimulation ==
    \A l \in Logins :
        ContractInvocation(l) =>
            /\ StepsBefore(l, {"simulate settled"}, {"lookup", "sign", "submit"})
            /\ StartsAfterSettled(l, "sign", "lookup settled")
            /\ StartsAfterSettled(l, "submit", "sign settled")

\* C12 as stated: within one tool invocation the steps run strictly in the
\* order simulate, classify, sign/submit, decode, and no step starts before
\* the previous one has resolved; the wallet lookup, signing and submission
\* never start before the simulation has completed, and submission never
\* starts before signing has completed.
C12_SimulateClassifySignSubmitDecode ==
    /\ C12_NoStepBeforeSimulation
    /\ \A l \in Logins :
          ContractInvocation(l) =>
              /\ StepsBefore(l, {"simulate settled"}, {"classify"})
              /\ StepsBefore(l, {"classify"}, {"lookup", "sign", "submit"})
              /\ StepsBefore(l, {"classify", "lookup", "sign", "submit",
                                 "submit settled"}, {"decode"})

\* C12 amended: within one tool invocation the steps run strictly in the
\* order simulate, decode, classify, wallet lookup, sign, submit, and no step
\* starts before the previous one has resolved; the wallet lookup, signing
\* and submission never start before the simulation has completed, and
\* submission never starts before signing has completed.  The handler is
\* suspended exactly at the awaited step it started last.
C12_SimulateDecodeClassifySignSubmit ==
    /\ C12_NoStepBeforeSimulation
    /\ \A l \in Logins :
          ContractInvocation(l) =>
              /\ IsPrefix(inv[l].steps, ContractSteps)
              /\ inv[l].pc = "simulate" <=> inv[l].steps = SubSeq(ContractSteps, 1, 1)
              /\ inv[l].pc = "lookup" <=> inv[l].steps = SubSeq(ContractSteps, 1, 5)
              /\ inv[l].pc = "sign" <=> inv[l].steps = SubSeq(ContractSteps, 1, 7)
              /\ inv[l].pc = "send" <=> inv[l].steps = SubSeq(ContractSteps, 1, 9)
              /\ inv[l].class # "none" =>
                    IsPrefix(SubSeq(ContractSteps, 1, 4), inv[l].steps)
              /\ inv[l].signs = 1 <=> IsPrefix(SubSeq(ContractSteps, 1, 7), inv[l].steps)
              /\ inv[l].sends = 1 <=> IsPrefix(SubSeq(ContractSteps, 1, 9), inv[l].steps)

\* A Mutation invocation has run through every step, each started after the
\* one before it settled, and returned the relay's outcome.
C12_Witness ==
    /\ ContractInvocation(User)
    /\ inv[User].steps = ContractSteps
    /\ inv[User].resp.success = "relayed"

\* C20: every Mutation invocation reads the user's wallet record from the
\* store at invocation time, not at session initialisation: the wallet
\* installed in the signing client and signed against is the address of the
\* record the store holds when the lookup is answered, and the lookup fails
\* exactly when the store holds no record then; so a wallet set by setWallet
\* after the session's tools were registered is the one the next Mutation
\* invocation uses.
C20_WalletReadAtInvocation ==
    [][\A l \in Logins :
          (ContractInvocation(l) /\ inv[l].pc = "lookup" /\ inv'[l] # inv[l]) =>
              IF GetAddressThrows(l)
              THEN inv'[l].lookup = "absent" /\ inv'[l].signs = 0
              ELSE /\ inv'[l].lookup = "found"
                   /\ inv'[l].signs = 1
                   /\ inv'[l].signedFor = SelectAddress(addresses, l)[1].address
                   /\ passkeyWallet' = SelectAddress(addresses, l)[1].address]_vars

\* The wallet record was replaced after the session registered its tools
\* (setWallet on tables created anew), and the invocation signs against the
\* new record's address.
C20_Witness ==
    /\ ContractInvocation(User)
    /\ inv[User].signs = 1
    /\ toolCall.tool = "setWallet"
    /\ session[User].walletAtInit # "none"
    /\ session[User].walletAtInit # inv[User].signedFor
    /\ SelectAddress(addresses, User) # <<>>
    /\ inv[User].signedFor = SelectAddress(addresses, User)[1].address

\* the statements of the deployToken handler and of the deployment routine
DeploySteps ==
    <<"lookup", "lookup settled", "build", "build settled",
      "sign", "sign settled", "submit", "submit settled">>

DeployInvocation(l) == inv[l].handler = "deployToken"

C19_DeployState ==
    \A l \in Logins :
        DeployInvocation(l) =>
            /\ inv[l].class = "none"
            /\ IsPrefix(inv[l].steps, DeploySteps)
            /\ inv[l].pc = "simulate" <=> inv[l].steps = SubSeq(DeploySteps, 1, 3)
            /\ inv[l].pc = "sign" <=> inv[l].steps = SubSeq(DeploySteps, 1, 5)
            /\ inv[l].pc = "send" <=> inv[l].steps = SubSeq(DeploySteps, 1, 7)
            /\ inv[l].resp.kind \in {"none", "error", "deployed"}
            /\ inv[l].resp.kind = "deployed" =>
                  /\ inv[l].steps = DeploySteps
                  /\ inv[l].signs = 1 /\ inv[l].sends = 1
                  /\ inv[l].signedFor = "deployer"
                  /\ inv[l].resp.success = "relayed"
                  /\ inv[l].resp.result = <<"contractId", "new">>
            /\ inv[l].resp.kind # "deployed" => inv[l].resp.result = "none"
            /\ inv[l].lookup = "absent" =>
                  /\ inv[l].signs = 0 /\ inv[l].sends = 0
                  /\ inv[l].pc = "done" /\ inv[l].resp.kind = "error"
                  /\ inv[l].steps = SubSeq(DeploySteps, 1, 2)

C19_DeployStep ==
    \A l \in Logins :
        (DeployInvocation(l) /\ inv'[l].resp.kind = "deployed"
            /\ inv[l].resp.kind # "deployed") =>
            /\ inv[l].pc = "send"
            /\ ledger' = ledger + 1

\* C19: the deployment never takes a read-only path: a deployToken invocation
\* is never classified; once its wallet lookup and the building of the
\* deployment have succeeded it signs the deployer authorization, and once
\* that has succeeded it submits through the relay; the response holds the new
\* contract address only after a successful submission; and when the user has
\* no wallet record the invocation ends in an error before any signing or
\* submission.
C19_DeployAlwaysSignsAndSubmits ==
    []C19_DeployState /\ [][C19_DeployStep]_vars

\* A deployment went through lookup, build, signing and submission and
\* returned the new contract's address.
C19_Witness ==
    /\ DeployInvocation(User)
    /\ inv[User].resp.kind = "deployed"
    /\ inv[User].steps = DeploySteps
    /\ ledger > 0

(***************************************************************************)
(* Claims about tool ids, properties of SpecNames.                         *)
(***************************************************************************)
ToolIdChars == Letters \cup Digits \cup {"_", "-"}

ToolIds(l) == {session[l].tools[i].id : i \in 1..Len(session[l].tools)}

\* C14: every tool id registered for a contract function has at most 64
\* characters and consists only of characters from a-z, A-Z, 0-9, underscore
\* and hyphen, whatever the contract name and the function name.
C14_ToolIdShape ==
    \A l \in Logins : \A id \in ToolIds(l) :
        /\ Len(id) <= MaxToolNameLen
        /\ \A k \in 1..Len(id) : id[k] \in ToolIdChars

\* A tool is registered for a contract whose name is longer than the cap and
\* holds a character outside the charset.
C14_Witness ==
    \E c \in {session[User].tracked[i] : i \in 1..Len(session[User].tracked)} :
        /\ Len(c.name.s) > MaxToolNameLen
        /\ \E k \in 1..Len(c.name.s) : c.name.s[k] \notin ToolIdChars
        /\ \E i \in 1..Len(session[User].tools) :
              session[User].tools[i].contractId = c.address

\* C15: in every derived tool id double underscores are collapsed to a single
\* underscore: no registered id contains two consecutive underscores, whatever
\* the contract name and the function name.
C15_NoDoubleUnderscore ==
    \A l \in Logins : \A id \in ToolIds(l) : ~IncludesDoubleUnderscore(id)

Initialised(l) == session[l].status # "none"

Range(seq) == {seq[i] : i \in 1..Len(seq)}

\* the functions of a tracked contract that get a tool
ToolFuncs(c) == {f \in Range(SpecFuncs(c.address)) : ~IncludesDoubleUnderscore(f)}

ToolOf(c, f) ==
    [id |-> ToolName(c.name, f), contractId |-> c.address, func |-> f,
     shape |-> ParamsSchema(c.address, f)]

AllToolsRegistered(l, c) ==
    \A f \in ToolFuncs(c) : ToolOf(c, f) \in Range(session[l].tools)

Fetchable(tracked) == SelectSeq(tracked, LAMBDA c : ~GetWasmThrows(c.address))

SomeFetchFails(tracked) == \E c \in Range(tracked) : GetWasmThrows(c.address)
SomeDecodeFails(tracked) ==
    \E c \in Range(tracked) : ~GetWasmThrows(c.address) /\ FromWasmThrows(c.address)

DistinctToolIds(tracked) ==
    \A c, d \in Range(tracked) : \A f \in ToolFuncs(c), g \in ToolFuncs(d) :
        ToolName(c.name, f) = ToolName(d.name, g) => (c = d /\ f = g)

\* C6: if fetching the interface of a tracked contract fails, that contract is
\* skipped, whatever its position: initialisation ends exactly as it does for
\* the list without the failing contracts, and when the other contracts have
\* decodable interfaces and distinct tool ids it completes with the tools of
\* every other tracked contract registered.
C6_FetchFailureSkipsContract ==
    \A l \in Logins :
        (Initialised(l) /\ SomeFetchFails(session[l].tracked)) =>
            /\ LET reg == RegisterContracts(EmptyRegistry, Fetchable(session[l].tracked))
               IN /\ session[l].tools = reg.tools
                  /\ (session[l].status = "failed") = reg.aborted
            /\ (~SomeDecodeFails(session[l].tracked)
                  /\ DistinctToolIds(session[l].tracked)) =>
                 /\ session[l].status = "ready"
                 /\ \A c \in Range(Fetchable(session[l].tracked)) :
                        AllToolsRegistered(l, c)

\* The first tracked contract could not be fetched and the tools of a later
\* one are registered.
C6_Witness ==
    /\ session[User].status = "ready"
    /\ Len(session[User].tracked) >= 2
    /\ GetWasmThrows(session[User].tracked[1].address)
    /\ \E c \in Range(Fetchable(session[User].tracked)) :
          ToolFuncs(c) # {} /\ AllToolsRegistered(User, c)

\* C7: if the interface blob of a tracked contract cannot be decoded, that
\* contract is skipped, the tools of the other tracked contracts are still
\* registered and initialisation is not aborted.
C7_DecodeFailureSkipsContract ==
    \A l \in Logins :
        (Initialised(l) /\ SomeDecodeFails(session[l].tracked)
            /\ DistinctToolIds(session[l].tracked)) =>
            /\ session[l].status = "ready"
            /\ \A c \in Range(session[l].tracked) :
                  (~GetWasmThrows(c.address) /\ ~FromWasmThrows(c.address))
                      => AllToolsRegistered(l, c)

\* C8: session initialisation always runs to completion and registers the six
\* management tools, for every tracked-contract list the store hands it.
C8_InitAlwaysCompletes ==
    \A l \in Logins :
        (Initialised(l) /\ session[l].listed) =>
            /\ session[l].status = "ready"
            /\ session[l].mgmt = ManagementTools

\* initialisation reached the contract at position i of the tracked list and
\* decoded its interface
Decoded(l, i) ==
    /\ ~RegisterContracts(EmptyRegistry, SubSeq(session[l].tracked, 1, i - 1)).aborted
    /\ ~GetWasmThrows(session[l].tracked[i].address)
    /\ ~FromWasmThrows(session[l].tracked[i].address)

ToolsFor(l, contractId, f) ==
    {k \in 1..Len(session[l].tools) :
        session[l].tools[k].contractId = contractId /\ session[l].tools[k].func = f}

\* C17: for every successfully decoded contract, no tool is registered for a
\* function whose name contains the double-underscore constructor marker, and
\* exactly one tool is registered for each function whose name does not
\* contain it.
C17_OneToolPerPlainFunction ==
    \A l \in Logins :
        (Initialised(l) /\ session[l].listed) =>
            \A i \in 1..Len(session[l].tracked) :
                Decoded(l, i) =>
                    \A f \in Range(SpecFuncs(session[l].tracked[i].address)) :
                        IF IncludesDoubleUnderscore(f)
                        THEN ToolsFor(l, session[l].tracked[i].address, f) = {}
                        ELSE Cardinality(ToolsFor(l, session[l].tracked[i].address, f)) = 1

\* the name under which the session tracks the contract of a registered tool
NameOfTool(l, t) ==
    (CHOOSE c \in Range(session[l].tracked) : c.address = t.contractId).name

EntryAsGiven(name, address) == [name |-> Text(name), address |-> address]

C9_UniquePerUserAddress ==
    \A i, j \in 1..Len(contracts) :
        (contracts[i].login = contracts[j].login
            /\ contracts[i].address = contracts[j].address) => i = j

C9_ReAddUnchanged ==
    (storeCall'.op = "addContract" /\ ~storeCall'.threw
        /\ \E e \in {SelectContracts(contracts, storeCall'.login)[i] :
                       i \in 1..Len(SelectContracts(contracts, storeCall'.login))} :
              e.address = storeCall'.address)
    => SelectContracts(contracts', storeCall'.login)
         = SelectContracts(contracts, storeCall'.login)

C9_AddThenGet ==
    (storeCall'.op = "addContract" /\ ~storeCall'.threw
        /\ SelectContracts(contracts, storeCall'.login) = <<>>)
    => SelectContracts(contracts', storeCall'.login)
         = <<EntryAsGiven(storeCall'.name, storeCall'.address)>>

\* C9: after any sequence of addContract/removeContract calls the store holds
\* at most one tracked contract per (user, address); adding an address the
\* user already tracks leaves getContracts(user) unchanged; and addContract on
\* an empty list followed by getContracts returns exactly the (name, address)
\* entry that was added.
C9_TrackedContractsClaim ==
    /\ []C9_UniquePerUserAddress
    /\ [][C9_ReAddUnchanged /\ C9_AddThenGet]_vars

\* The two parts of C9 that the store does keep.
C9_UniqueAndIdempotent ==
    /\ []C9_UniquePerUserAddress
    /\ [][C9_ReAddUnchanged]_vars

\* C10: the store holds at most one wallet record per user, and once a record
\* exists for a user every later setAddress call for that user (same or
\* different address) leaves the stored address and signing secret unchanged.
C10_OneWalletSetOnce ==
    /\ [](\A l \in StoreLogins : Len(SelectAddress(addresses, l)) <= 1)
    /\ [][(storeCall'.op = "setAddress"
             /\ SelectAddress(addresses, storeCall'.login) # <<>>)
          => SelectAddress(addresses', storeCall'.login)
               = SelectAddress(addresses, storeCall'.login)]_vars

\* A setAddress with another address returned normally for a user whose
\* record holds a different address.
C10_Witness ==
    /\ storeCall.op = "setAddress"
    /\ ~storeCall.threw
    /\ SelectAddress(addresses, storeCall.login) # <<>>
    /\ SelectAddress(addresses, storeCall.login)[1].address # storeCall.address

(***************************************************************************)
(* Claims about the management tools, properties of Spec.                  *)
(***************************************************************************)
\* the arguments a setContractAddress call is made with in any specification
TrackNames == InitNames \cup ToolIdNames
TrackAddresses == ContractAddresses \cup Malformed

NoWalletRecord(l) == ~tables \/ SelectAddress(addresses, l) = <<>>

\* C21: setContractAddress adds a tracked contract only for a user who
\* already has a wallet record: an invocation by a user without a wallet
\* record leaves that user's tracked-contract list as it was, and an
\* invocation that changes the list was made by a user with a record.
C21_TrackedOnlyWithWallet ==
    [][\A l \in Logins :
          (/\ toolCall'.tool = "setContractAddress"
           /\ toolCall'.login = l
           /\ \E n \in TrackNames, a \in TrackAddresses :
                 setContractAddress(l, n, a)) =>
             /\ NoWalletRecord(l) =>
                   SelectContracts(contracts', l) = SelectContracts(contracts, l)
             /\ SelectContracts(contracts', l) # SelectContracts(contracts, l) =>
                   ~NoWalletRecord(l)]_vars

\* setContractAddress was invoked by a user whose session is ready, while the
\* tables exist and hold no wallet record for the user; the invocation ended
\* at the wallet lookup and the user tracks nothing.
C21_Witness ==
    /\ toolCall.tool = "setContractAddress"
    /\ toolCall.login = User
    /\ toolCall.msg = "getAddress rejected"
    /\ tables
    /\ SelectAddress(addresses, User) = <<>>
    /\ SelectContracts(contracts, User) = <<>>
    /\ pending[User] = <<>>

(***************************************************************************)
(* Claims about the response envelope, properties of Spec.                 *)
(***************************************************************************)
Ended(l) == ContractInvocation(l) /\ inv[l].pc = "done"

\* the envelope of a Mutation invocation that was submitted and relayed
C22_MutationEnvelope ==
    \A l \in Logins :
        (Ended(l) /\ inv[l].class = "Mutation" /\ inv[l].resp.kind # "error") =>
            /\ inv[l].resp.result = Decode(inv[l].sim.retval)
            /\ inv[l].resp.success = "relayed"
            /\ inv[l].resp.error = "none"

\* the envelope of a Read invocation
C22_ReadEnvelope ==
    \A l \in Logins :
        (Ended(l) /\ inv[l].class = "Read") =>
            /\ inv[l].resp.result = Decode(inv[l].sim.retval)
            /\ inv[l].resp.success = "none"
            /\ inv[l].resp.error = "none"

\* the envelope of a failed invocation holds neither result nor outcome
C22_ErrorEnvelopeBare ==
    \A l \in Logins :
        (Ended(l) /\ inv[l].resp.kind = "error") =>
            /\ inv[l].resp.result = "none"
            /\ inv[l].resp.success = "none"
            /\ inv[l].resp.error # "none"

\* the envelope of a failed invocation holds the detail of what was thrown
C22_ErrorEnvelopeDetail ==
    \A l \in Logins :
        (Ended(l) /\ inv[l].resp.kind = "error") =>
            inv[l].resp.error = inv[l].resp.caught

\* C22: the envelope of a successful Mutation invocation contains both the
\* decoded simulated result and the relay's submission outcome, the envelope
\* of a Read invocation contains the decoded result only, and the envelope of
\* a failed invocation contains the error detail and neither a result nor a
\* submission outcome.
C22_EnvelopeShapes ==
    /\ C22_MutationEnvelope
    /\ C22_ReadEnvelope
    /\ C22_ErrorEnvelopeBare
    /\ C22_ErrorEnvelopeDetail

\* What the envelopes do satisfy: the three shapes, without the detail.
C22_ShapesWithoutDetail ==
    /\ C22_MutationEnvelope
    /\ C22_ReadEnvelope
    /\ C22_ErrorEnvelopeBare

SimulationFailed(l) == ContractInvocation(l) /\ inv[l].sim.kind = "simError"

\* after a failed simulation the handler has ended in an error envelope and
\* has neither looked up the wallet, nor signed, nor submitted
C23_FailedSimulationStops ==
    \A l \in Logins :
        SimulationFailed(l) =>
            /\ inv[l].pc = "done"
            /\ inv[l].resp.kind = "error"
            /\ inv[l].resp.result = "none"
            /\ inv[l].resp.success = "none"
            /\ inv[l].lookup = "none"
            /\ inv[l].signs = 0
            /\ inv[l].sends = 0

\* C23: when the simulation of an assembled call fails, the invocation
\* returns an error envelope that carries the ledger's diagnostic, and no
\* wallet lookup, signing or submission is performed; a failed simulation is
\* never answered with a success-shaped or default result.
C23_FailedSimulationReported ==
    /\ C23_FailedSimulationStops
    /\ \A l \in Logins :
          SimulationFailed(l) => inv[l].resp.error = "simError"

(***************************************************************************)
(* Claims about the synthesized tools and their arguments, properties of   *)
(* SpecArgs.                                                               *)
(***************************************************************************)
\* C24: the handler of the tool synthesized for function f of contract C
\* assembles an operation that targets contract C and function f, whatever
\* the number of tracked contracts and functions registered in the session:
\* the id under which the tool was called is the id derived in the loop
\* iteration of the tracked contract and the function the operation targets.
C24_HandlerTargetsOwnIteration ==
    \A l \in Logins :
        ContractInvocation(l) =>
            \E c \in Range(session[l].tracked) :
                /\ c.address = inv[l].op.contractId
                /\ inv[l].op.func \in ToolFuncs(c)
                /\ inv[l].tool.id = ToolName(c.name, inv[l].op.func)

\* In a session with the tools of two contracts, three functions in all, the
\* tool registered second has been called and its handler has ended.
C24_Witness ==
    /\ session[User].status = "ready"
    /\ Len(session[User].tools) = 3
    /\ ContractInvocation(User)
    /\ inv[User].tool = session[User].tools[2]
    /\ inv[User].pc = "done"

\* C25: the encoded arguments placed in the assembled operation are the
\* transformed values of the function's parameters in the declared parameter
\* order, one per parameter, for every function and every set of parameter
\* names.
C25_ArgsInDeclaredOrder ==
    \A l \in Logins :
        ContractInvocation(l) =>
            LET inputs == FuncInputs(inv[l].op.contractId, inv[l].op.func)
            IN /\ Len(inv[l].args) = Len(inputs)
               /\ \A k \in 1..Len(inputs) :
                     inv[l].args[k] =
                        nativeToScVal(ValueOf(inv[l].supplied, inputs[k].name),
                                      inputs[k].type)

\* an argument object with a value that is not well-formed for the declared
\* type of its parameter
IllFormed(tool, supplied) ==
    \E p \in Range(FuncInputs(tool.contractId, tool.func)) :
        NativeToScValThrows(ValueOf(supplied, p.name), p.type)

Tracks(l, a) == \E e \in Range(SelectContracts(contracts, l)) : e.address = a

\* C27: after removeContract(user, address), getContracts(user) contains no
\* entry with that address, every other tracked contract of that user and
\* every wallet record is unchanged, and removing an address the user does
\* not track leaves the store unchanged.
C27_RemoveContractFrame ==
    [][(storeCall'.op = "removeContract"
          /\ removeContract(storeCall'.login, storeCall'.address)) =>
          LET l == storeCall'.login
              a == storeCall'.address
          IN /\ \A e \in Range(SelectContracts(contracts', l)) : e.address # a
             /\ SelectContracts(contracts', l)
                   = SelectSeq(SelectContracts(contracts, l),
                               LAMBDA e : e.address # a)
             /\ addresses' = addresses
             /\ ~Tracks(l, a) =>
                   UNCHANGED <<tables, contracts, addresses>>]_vars

\* A removeContract returned for a user who tracked the address and still
\* tracks another one, while a wallet record exists.
C27_Witness ==
    /\ storeCall.op = "removeContract"
    /\ ~storeCall.threw
    /\ Len(SelectContracts(contracts, storeCall.login)) = 1
    /\ ~Tracks(storeCall.login, storeCall.address)
    /\ addresses # <<>>

(***************************************************************************)
(* Claims about the wallet tools, properties of Spec.                      *)
(***************************************************************************)
\* C28: looking up the wallet of a user who has no wallet record yields an
\* "absent" result rather than a failure, and the getWallet tool then answers
\* "No wallet address set".
C28_NoWalletIsAbsentNotFailure ==
    [][\A l \in Logins :
          (/\ getWallet(l)
           /\ tables
           /\ SelectAddress(addresses, l) = <<>>) =>
             /\ ~GetAddressThrows(l)
             /\ toolCall' = Handled("getWallet", l, "returned",
                                    "No wallet address set", <<>>)]_vars

\* the store is about to run the setAddress call of a setWallet invocation
\* that answered "Wallet address set to W"
WalletWriteDue(l) ==
    /\ pending[l] # <<>>
    /\ Head(pending[l]).op = "setAddress"
    /\ tables

\* C29: whenever the setWallet tool returns "Wallet address set to W" for a
\* user, the store then holds a wallet record for that user whose address is
\* W (also when a record already existed, when W is malformed, and when the
\* store write was not awaited): once the store has run the write of that
\* invocation, the record a getWallet by the same user reads holds W.
C29_SetWalletAnswerIsStored ==
    [][\A l \in Logins :
          (WalletWriteDue(l) /\ storeRuns(l, "S1")) =>
             /\ ~GetAddressThrows(l)'
             /\ AddressSk(l)'[1] = Head(pending[l]).address]_vars

\* What does hold: a write for a well-formed address by a user without a
\* record is stored, and is stored before a later getWallet is answered.
C29_FirstWellFormedWalletIsStored ==
    [][\A l \in Logins :
          (/\ WalletWriteDue(l)
           /\ storeRuns(l, "S1")
           /\ IsAddress(Head(pending[l]).address)
           /\ SelectAddress(addresses, l) = <<>>) =>
             /\ ~GetAddressThrows(l)'
             /\ AddressSk(l)'[1] = Head(pending[l]).address]_vars

(***************************************************************************)
(* Isolation of the users of the one store object, a property of           *)
(* SpecStore.                                                              *)
(***************************************************************************)
UserCalls == {"addContract", "removeContract", "setAddress", "getContracts", "getAddress"}

\* no row of either table is answered to two different users
C30_NoRowOfTwoUsers ==
    \A a, b \in StoreLogins :
        a # b =>
            /\ \A i \in 1..Len(contracts) :
                  ~(contracts[i].login = StringAffinity(a)
                      /\ contracts[i].login = StringAffinity(b))
            /\ \A i \in 1..Len(addresses) :
                  ~(addresses[i].login = StringAffinity(a)
                      /\ addresses[i].login = StringAffinity(b))

\* a call made for user a leaves what the store answers to another user b
C30_CallLeavesOtherUsers ==
    \A a, b \in StoreLogins :
        (a # b /\ storeCall' # storeCall /\ storeCall'.op \in UserCalls
            /\ storeCall'.login = a) =>
            /\ SelectContracts(contracts', b) = SelectContracts(contracts, b)
            /\ SelectAddress(addresses', b) = SelectAddress(addresses, b)

\* C30: per-user isolation of the store: no sequence of addContract,
\* removeContract, setAddress, getContracts and getAddress calls made for
\* user A changes or reveals the tracked-contract list or the wallet record
\* of a different user B, although all users share one store instance.
C30_PerUserIsolation ==
    /\ []C30_NoRowOfTwoUsers
    /\ [][C30_CallLeavesOtherUsers]_vars

====
